---------------------------- MODULE Spec2Model ----------------------------
(* A model of rustty (src/src/main.rs): a pseudo-shell with a text UI.     *)
(* main sets the terminal up, then loops render -> event::read -> dispatch. *)
(* App::read edits the input line and, on Enter, runs the line as a         *)
(* builtin (cd, clear), a fullscreen command or a captured command.         *)
(*                                                                          *)
(* Text is a sequence of one-character strings, so that trim, starts_with   *)
(* and slicing are computed.  OutputBuffer is a sequence of text chunks.    *)
EXTENDS Integers, Sequences, FiniteSets, TLC

(***************************************************************************)
(* Bounds of the model.                                                    *)
(***************************************************************************)
\* The user types at most MaxPad spaces, then one of the command lines of
\* Lines (or a part of one).
MaxPad == 1

(***************************************************************************)
(* Text helpers: str::trim, str::starts_with, slicing.                      *)
(***************************************************************************)
IsWhitespace(c) == c = " "

RECURSIVE TrimStart(_)
TrimStart(s) ==
    IF s = <<>> THEN <<>>
    ELSE IF IsWhitespace(Head(s)) THEN TrimStart(Tail(s))
    ELSE s

RECURSIVE TrimEnd(_)
TrimEnd(s) ==
    IF s = <<>> THEN <<>>
    ELSE IF IsWhitespace(s[Len(s)]) THEN TrimEnd(SubSeq(s, 1, Len(s) - 1))
    ELSE s

Trim(s) == TrimEnd(TrimStart(s))

StartsWith(s, p) == Len(p) <= Len(s) /\ SubSeq(s, 1, Len(p)) = p

\* cmd[n..] of Rust: the text from (0-based) offset n on.
SliceFrom(s, n) == SubSeq(s, n + 1, Len(s))

(***************************************************************************)
(* The command lines the user types in the model, and the key alphabet.     *)
(***************************************************************************)
Lines ==
    { <<>>,
      <<"c", "l", "e", "a", "r", " ">>,
      <<"c", "d", " ", "/", "t">>,
      <<"c", "d", " ", " ", "t", " ">>,
      <<"c", "d", " ", "/", "x">>,
      <<"c", "d", " ", " ">>,
      <<"v", "i", "m">>,
      <<"v", "i", "m", " ", "f">>,
      <<"t", "o", "p">>,
      <<"h", "t", "o", "p">>,
      <<"l", "e", "s", "s">>,
      <<"l", "s">> }

Alphabet == {" "} \cup UNION { { l[i] : i \in 1..Len(l) } : l \in Lines }

Pad(k) == [i \in 1..k |-> " "]

\* The user can type c after s.
Typable(s, c) ==
    \E l \in Lines, k \in 0..MaxPad : StartsWith(Pad(k) \o l, Append(s, c))

(***************************************************************************)
(* The environment: the file system seen by env::set_current_dir, and the   *)
(* results of `sh -c <cmd>`.                                                *)
(***************************************************************************)
\* The directories that exist.
Dirs == { <<"/">>, <<"/", "t">> }

\* A path as the operating system resolves it against the working directory.
Resolve(wd, path) ==
    IF path # <<>> /\ Head(path) = "/" THEN path
    ELSE IF wd = <<"/">> THEN wd \o path
    ELSE wd \o <<"/">> \o path

\* env::set_current_dir(path): Ok with the new working directory, or Err(e).
set_current_dir(wd, path) ==
    IF Resolve(wd, path) \in Dirs
    THEN [ok |-> TRUE, dir |-> Resolve(wd, path), e |-> ""]
    ELSE [ok |-> FALSE, dir |-> wd, e |-> "No such file or directory (os error 2)"]

\* A byte sequence that is not valid UTF-8, and what from_utf8_lossy makes of it.
InvalidBytes == "<FF>"
ReplacementChar == "<U+FFFD>"

\* String::from_utf8_lossy(bytes).to_string()
FromUtf8Lossy(bytes) ==
    [i \in 1..Len(bytes) |-> IF bytes[i] = InvalidBytes THEN ReplacementChar ELSE bytes[i]]

NoValue == [tag |-> "None", code |-> 0, stdout |-> <<>>, stderr |-> <<>>]
ErrValue == [tag |-> "Err", code |-> 0, stdout |-> <<>>, stderr |-> <<>>]
OkValue(code, out, err) == [tag |-> "Ok", code |-> code, stdout |-> out, stderr |-> err]

\* What Command::new("sh").arg("-c").arg(cmd).output() can return once the
\* child has been spawned: `sh -c ""` exits 0 and writes nothing; any other
\* command line exits with any status and any bytes on its two pipes.
ShOutputs(c) ==
    IF c = <<>> THEN { OkValue(0, <<>>, <<>>) }
    ELSE { OkValue(0, <<"a.txt\n">>, <<>>),
           OkValue(0, <<"out", InvalidBytes>>, <<"warning\n">>),
           OkValue(0, <<>>, <<>>),
           OkValue(1, <<"partial">>, <<"sh: ", InvalidBytes, ": not found\n">>),
           OkValue(1, <<"partial">>, <<>>),
           ErrValue }

(***************************************************************************)
(* App::new and the branch App::read takes on Enter.                        *)
(***************************************************************************)
fullscreen_commands ==
    { <<"h", "t", "o", "p">>, <<"v", "i", "m">>,
      <<"l", "e", "s", "s">>, <<"t", "o", "p">> }

NoPlan == [kind |-> "None", arg |-> <<>>]
Plan(kind, arg) == [kind |-> kind, arg |-> arg]

\* ReadBranch with the fullscreen test made on the leading command name
\* instead of the whole line.
ReadBranch_LeadingName(c) ==
    IF StartsWith(c, <<"c", "d", " ">>) THEN Plan("ChangeDirectory", Trim(SliceFrom(c, 3)))
    ELSE IF c = <<"c", "l", "e", "a", "r">> THEN Plan("ClearOutput", <<>>)
    ELSE IF \E f \in fullscreen_commands : c = f \/ StartsWith(c, Append(f, " "))
         THEN Plan("RunFullscreen", c)
    ELSE Plan("RunCaptured", c)

\* The if / else-if chain of the Enter arm, on the trimmed line c.
ReadBranch(c) ==
    IF StartsWith(c, <<"c", "d", " ">>) THEN Plan("ChangeDirectory", Trim(SliceFrom(c, 3)))
    ELSE IF c = <<"c", "l", "e", "a", "r">> THEN Plan("ClearOutput", <<>>)
    ELSE IF c \in fullscreen_commands THEN Plan("RunFullscreen", c)
    ELSE Plan("RunCaptured", c)

\* format!("Error: Command '{}' not found", cmd)
NotFoundMessage(c) == <<"Error: Command '">> \o c \o <<"' not found">>

\* format!("Error changing directory: {}", e)
ChdirErrorMessage(e) == <<"Error changing directory: ", e>>

(***************************************************************************)
(* Events returned by event::read.                                         *)
(***************************************************************************)
NoEvent == [type |-> "None", code |-> "", ch |-> "", mods |-> "NONE"]
KeyEvent(code, ch, mods) == [type |-> "Key", code |-> code, ch |-> ch, mods |-> mods]
OtherEvent(type) == [type |-> type, code |-> "", ch |-> "", mods |-> "NONE"]

Events ==
    { KeyEvent("Char", c, "NONE") : c \in Alphabet }
    \cup { KeyEvent("Char", "c", m) : m \in {"CONTROL", "CONTROL_SHIFT"} }
    \cup { KeyEvent("Char", "d", "CONTROL") }
    \cup { KeyEvent(k, "", "NONE") : k \in {"Backspace", "Enter", "Esc"} }
    \cup { KeyEvent("Enter", "", "CONTROL") }
    \cup { OtherEvent(t) : t \in {"Mouse", "Resize"} }

\* IsQuitKey that accepts any chord holding Control (contains, not ==).
IsQuitKey_AnyControlChord(ev) ==
    ev.type = "Key" /\ ev.code = "Char" /\ ev.ch = "c"
       /\ ev.mods \in {"CONTROL", "CONTROL_SHIFT"}

\* The guard of the first match arm of main.
IsQuitKey(ev) ==
    ev.type = "Key" /\ ev.code = "Char" /\ ev.ch = "c" /\ ev.mods = "CONTROL"

(***************************************************************************)
(* The state of the program.                                               *)
(***************************************************************************)
VARIABLES
    pc,            \* where main is
    input,         \* App.input
    output,        \* App.output
    cwd,           \* the process's working directory
    raw,           \* the terminal is in raw mode
    alt,           \* the terminal shows the alternate screen
    mouse,         \* mouse capture is enabled
    cursorHidden,  \* the cursor is hidden (Terminal::draw hides it)
    child,         \* the child process that is alive: none, captured, fullscreen
    spawned,       \* children spawned by the current call of run_fullscreen_cmd
    event,         \* the event event::read returned in this iteration of the loop
    cmd,           \* the trimmed line of this iteration's Enter dispatch
    plan,          \* the branch that dispatch took
    value,         \* the result of Command::output() in run_cmd
    lastOp,        \* the last raw-mode / alternate-screen primitive called
    exitStatus,    \* the exit status of the process, -1 while it runs
    failure        \* why the process ended, "" on the Ctrl+C path

vars == << pc, input, output, cwd, raw, alt, mouse, cursorHidden, child, spawned,
           event, cmd, plan, value, lastOp, exitStatus, failure >>

app == << input, output, cwd >>
term == << raw, alt, mouse, cursorHidden, lastOp >>
proc == << child, spawned, value >>
disp == << event, cmd, plan >>
ended == << exitStatus, failure >>

\* TerminalMode of the data model, read off the terminal's state.
TerminalMode ==
    IF raw /\ alt THEN "Normal"
    ELSE IF ~raw /\ ~alt THEN "Interactive"
    ELSE "Switching"

Init ==
    /\ pc = "enable_raw"
    /\ input = <<>>
    /\ output = <<>>
    /\ cwd \in Dirs
    /\ raw = FALSE
    /\ alt = FALSE
    /\ mouse = FALSE
    /\ cursorHidden = FALSE
    /\ child = "none"
    /\ spawned = 0
    /\ event = NoEvent
    /\ cmd = <<>>
    /\ plan = NoPlan
    /\ value = NoValue
    /\ lastOp = "none"
    /\ exitStatus = -1
    /\ failure = ""

(***************************************************************************)
(* How the process ends.  A panic (expect, unwrap) ends it with status 101, *)
(* an Err returned by main with status 1; neither runs the cleanup at the   *)
(* end of main.  Once `terminal` exists, leaving main drops it, and the     *)
(* drop shows the cursor again if draw had hidden it.                       *)
(***************************************************************************)
Exit(status, why) ==
    /\ pc' = "done"
    /\ exitStatus' = status
    /\ failure' = why

Panic(why) == Exit(101, why)

(***************************************************************************)
(* main: setup.                                                            *)
(***************************************************************************)
\* enable_raw_mode().expect("Failed to enable raw mode")
MainEnableRawMode ==
    /\ pc = "enable_raw"
    /\ lastOp' = "enable_raw_mode"
    /\ \E ok \in BOOLEAN :
          IF ok THEN /\ raw' = TRUE
                     /\ pc' = "enter_alt"
                     /\ UNCHANGED ended
                ELSE /\ raw' = raw
                     /\ Panic("Failed to enable raw mode")
    /\ UNCHANGED << app, alt, mouse, cursorHidden, proc, disp >>

\* execute!(stdout, EnterAlternateScreen, EnableMouseCapture)?
MainEnterAlternateScreen ==
    /\ pc = "enter_alt"
    /\ lastOp' = "EnterAlternateScreen"
    /\ \E ok \in BOOLEAN :
          IF ok THEN /\ alt' = TRUE
                     /\ mouse' = TRUE
                     /\ pc' = "terminal_new"
                     /\ UNCHANGED ended
                ELSE /\ UNCHANGED << alt, mouse >>
                     /\ Exit(1, "Err: EnterAlternateScreen")
    /\ UNCHANGED << app, raw, cursorHidden, proc, disp >>

\* Terminal::new(backend).unwrap(); App::new()
MainTerminalNew ==
    /\ pc = "terminal_new"
    /\ \E ok \in BOOLEAN :
          IF ok THEN /\ pc' = "render"
                     /\ input' = <<>>
                     /\ output' = <<>>
                     /\ UNCHANGED ended
                ELSE /\ UNCHANGED << input, output >>
                     /\ Panic("unwrap: Terminal::new")
    /\ UNCHANGED << cwd, term, proc, disp >>

(***************************************************************************)
(* main: the loop.                                                         *)
(***************************************************************************)
\* The top of the loop, app.render_ui(&mut terminal): terminal.draw(..).unwrap().
\* The event and the dispatch of the iteration before are gone.
render_ui ==
    /\ pc = "render"
    /\ \E ok \in BOOLEAN :
          IF ok THEN /\ cursorHidden' = TRUE
                     /\ pc' = "read_event"
                     /\ UNCHANGED ended
                ELSE /\ cursorHidden' = FALSE
                     /\ Panic("unwrap: draw")
    /\ event' = NoEvent
    /\ cmd' = <<>>
    /\ plan' = NoPlan
    /\ UNCHANGED << app, raw, alt, mouse, lastOp, proc >>

\* event::read()? returns an event.  A character is delivered only where the
\* model lets the user type it.
EventRead ==
    /\ pc = "read_event"
    /\ \E ev \in Events :
          /\ (ev.code = "Char" /\ ~IsQuitKey(ev)) => Typable(input, ev.ch)
          /\ event' = ev
    /\ pc' = "match_event"
    /\ UNCHANGED << app, term, proc, cmd, plan, ended >>

\* event::read()? returns Err: main returns it.
EventReadErr ==
    /\ pc = "read_event"
    /\ cursorHidden' = FALSE
    /\ Exit(1, "Err: event::read")
    /\ UNCHANGED << app, raw, alt, mouse, lastOp, proc, disp >>

\* an event that is not Event::Key: the if let does not match
MainNotKey ==
    /\ pc = "match_event"
    /\ event.type # "Key"
    /\ pc' = "render"
    /\ UNCHANGED << app, term, proc, disp, ended >>

\* KeyCode::Char('c') if key_event.modifiers == KeyModifiers::CONTROL => break
MainQuit ==
    /\ pc = "match_event"
    /\ IsQuitKey(event)
    /\ pc' = "cleanup_raw"
    /\ UNCHANGED << app, term, proc, disp, ended >>

\* The guard of `key => app.read(key)`.
RoutedToRead == pc = "match_event" /\ event.type = "Key" /\ ~IsQuitKey(event)

(***************************************************************************)
(* App::read.                                                              *)
(***************************************************************************)
\* KeyCode::Char(c) => self.input.push(c)
ReadChar ==
    /\ RoutedToRead
    /\ event.code = "Char"
    /\ input' = Append(input, event.ch)
    /\ pc' = "render"
    /\ UNCHANGED << output, cwd, term, proc, disp, ended >>

\* ReadBackspace that empties the whole line (clear instead of pop).
ReadBackspace_ClearsLine ==
    /\ RoutedToRead
    /\ event.code = "Backspace"
    /\ input' = <<>>
    /\ pc' = "render"
    /\ UNCHANGED << output, cwd, term, proc, disp, ended >>

\* KeyCode::Backspace => self.input.pop()
ReadBackspace ==
    /\ RoutedToRead
    /\ event.code = "Backspace"
    /\ input' = IF input = <<>> THEN <<>> ELSE SubSeq(input, 1, Len(input) - 1)
    /\ pc' = "render"
    /\ UNCHANGED << output, cwd, term, proc, disp, ended >>

\* ReadOtherKey where the key (Esc) empties the line.
ReadOtherKey_ClearsLine ==
    /\ RoutedToRead
    /\ event.code \notin {"Char", "Backspace", "Enter"}
    /\ input' = <<>>
    /\ pc' = "render"
    /\ UNCHANGED << output, cwd, term, proc, disp, ended >>

\* _ => {}
ReadOtherKey ==
    /\ RoutedToRead
    /\ event.code \notin {"Char", "Backspace", "Enter"}
    /\ pc' = "render"
    /\ UNCHANGED << app, term, proc, disp, ended >>

\* The guard of the Enter arm.
EnterKey == RoutedToRead /\ event.code = "Enter"

\* ReadEnterCd with the error of set_current_dir dropped (Err(_) => {}).
ReadEnterCd_DropsError ==
    /\ EnterKey
    /\ ReadBranch(Trim(input)).kind = "ChangeDirectory"
    /\ cmd' = Trim(input)
    /\ plan' = ReadBranch(Trim(input))
    /\ LET r == set_current_dir(cwd, Trim(SliceFrom(Trim(input), 3)))
       IN  cwd' = IF r.ok THEN r.dir ELSE cwd
    /\ output' = output
    /\ input' = <<>>
    /\ pc' = "render"
    /\ UNCHANGED << event, term, proc, ended >>

\* Enter, cmd.starts_with("cd "): env::set_current_dir, then input.clear()
ReadEnterCd ==
    /\ EnterKey
    /\ ReadBranch(Trim(input)).kind = "ChangeDirectory"
    /\ cmd' = Trim(input)
    /\ plan' = ReadBranch(Trim(input))
    /\ LET r == set_current_dir(cwd, Trim(SliceFrom(Trim(input), 3)))
       IN  IF r.ok THEN /\ cwd' = r.dir
                        /\ output' = output
                   ELSE /\ cwd' = cwd
                        /\ output' = ChdirErrorMessage(r.e)
    /\ input' = <<>>
    /\ pc' = "render"
    /\ UNCHANGED << event, term, proc, ended >>

\* Enter, cmd == "clear": output.clear(), then input.clear()
ReadEnterClear ==
    /\ EnterKey
    /\ ReadBranch(Trim(input)).kind = "ClearOutput"
    /\ cmd' = Trim(input)
    /\ plan' = ReadBranch(Trim(input))
    /\ output' = <<>>
    /\ input' = <<>>
    /\ pc' = "render"
    /\ UNCHANGED << event, cwd, term, proc, ended >>

\* ReadEnterFullscreen that empties the output pane before the child runs.
ReadEnterFullscreen_ClearsOutput ==
    /\ EnterKey
    /\ ReadBranch(Trim(input)).kind = "RunFullscreen"
    /\ cmd' = Trim(input)
    /\ plan' = ReadBranch(Trim(input))
    /\ spawned' = 0
    /\ output' = <<>>
    /\ pc' = "fs_disable_raw"
    /\ UNCHANGED << event, input, cwd, term, child, value, ended >>

\* Enter, fullscreen_commands.contains(cmd): run_fullscreen_cmd is entered
ReadEnterFullscreen ==
    /\ EnterKey
    /\ ReadBranch(Trim(input)).kind = "RunFullscreen"
    /\ cmd' = Trim(input)
    /\ plan' = ReadBranch(Trim(input))
    /\ spawned' = 0
    /\ pc' = "fs_disable_raw"
    /\ UNCHANGED << event, app, term, child, value, ended >>

\* Enter, anything else: run_cmd is entered and Command::output() spawns
\* `sh -c cmd` with piped stdout and stderr, or fails to.
ReadEnterCaptured ==
    /\ EnterKey
    /\ ReadBranch(Trim(input)).kind = "RunCaptured"
    /\ cmd' = Trim(input)
    /\ plan' = ReadBranch(Trim(input))
    /\ \E ok \in BOOLEAN :
          IF ok THEN /\ child' = "captured"
                     /\ value' = value
                     /\ pc' = "cmd_wait"
                ELSE /\ child' = child
                     /\ value' = ErrValue
                     /\ pc' = "cmd_match"
    /\ UNCHANGED << event, app, term, spawned, ended >>

(***************************************************************************)
(* App::run_cmd.                                                           *)
(***************************************************************************)
\* RunCmdOutput with the result pushed onto the old output (push_str).
RunCmdOutput_Appends(v, c) ==
    output \o (IF v.tag = "Ok"
               THEN IF v.code = 0 THEN FromUtf8Lossy(v.stdout) ELSE FromUtf8Lossy(v.stderr)
               ELSE NotFoundMessage(c))

\* The match on the result of Command::output() in run_cmd.
RunCmdOutput(v, c) ==
    IF v.tag = "Ok"
    THEN IF v.code = 0 THEN FromUtf8Lossy(v.stdout) ELSE FromUtf8Lossy(v.stderr)
    ELSE NotFoundMessage(c)

\* RunCmdChildExit where a `cd` run by the shell moves the application too.
RunCmdChildExit_ChdirLeaks ==
    /\ pc = "cmd_wait"
    /\ child = "captured"
    /\ \E v \in ShOutputs(cmd) : value' = v
    /\ child' = "none"
    /\ cwd' = IF cmd = <<"c", "d">> THEN <<"/">> ELSE cwd
    /\ pc' = "cmd_match"
    /\ UNCHANGED << input, output, term, spawned, disp, ended >>

\* Command::output() returns: the child has exited and its pipes were read.
RunCmdChildExit ==
    /\ pc = "cmd_wait"
    /\ child = "captured"
    /\ \E v \in ShOutputs(cmd) : value' = v
    /\ child' = "none"
    /\ pc' = "cmd_match"
    /\ UNCHANGED << app, term, spawned, disp, ended >>

\* RunCmdMatch without the input.clear() that follows run_cmd in read.
RunCmdMatch_KeepsInput ==
    /\ pc = "cmd_match"
    /\ output' = RunCmdOutput(value, cmd)
    /\ input' = input
    /\ value' = NoValue
    /\ pc' = "render"
    /\ UNCHANGED << cwd, term, child, spawned, disp, ended >>

\* the match on the result, then input.clear() of read
RunCmdMatch ==
    /\ pc = "cmd_match"
    /\ output' = RunCmdOutput(value, cmd)
    /\ input' = <<>>
    /\ value' = NoValue
    /\ pc' = "render"
    /\ UNCHANGED << cwd, term, child, spawned, disp, ended >>

(***************************************************************************)
(* App::run_fullscreen_cmd.                                                *)
(***************************************************************************)
\* disable_raw_mode().expect("Failed to disable raw mode")
FsDisableRawMode ==
    /\ pc = "fs_disable_raw"
    /\ lastOp' = "disable_raw_mode"
    /\ \E ok \in BOOLEAN :
          IF ok THEN /\ raw' = FALSE
                     /\ cursorHidden' = cursorHidden
                     /\ pc' = "fs_leave_alt"
                     /\ UNCHANGED ended
                ELSE /\ raw' = raw
                     /\ cursorHidden' = FALSE
                     /\ Panic("Failed to disable raw mode")
    /\ UNCHANGED << app, alt, mouse, proc, disp >>

\* execute!(io::stdout(), LeaveAlternateScreen).expect(..)
FsLeaveAlternateScreen ==
    /\ pc = "fs_leave_alt"
    /\ lastOp' = "LeaveAlternateScreen"
    /\ \E ok \in BOOLEAN :
          IF ok THEN /\ alt' = FALSE
                     /\ cursorHidden' = cursorHidden
                     /\ pc' = "fs_spawn"
                     /\ UNCHANGED ended
                ELSE /\ alt' = alt
                     /\ cursorHidden' = FALSE
                     /\ Panic("Failed to leave alternate screen")
    /\ UNCHANGED << app, raw, mouse, proc, disp >>

\* Command::new("sh")...stdin(inherit).stdout(inherit).spawn().expect(..)
FsSpawn ==
    /\ pc = "fs_spawn"
    /\ \E ok \in BOOLEAN :
          IF ok THEN /\ child' = "fullscreen"
                     /\ spawned' = spawned + 1
                     /\ cursorHidden' = cursorHidden
                     /\ pc' = "fs_wait"
                     /\ UNCHANGED ended
                ELSE /\ UNCHANGED << child, spawned >>
                     /\ cursorHidden' = FALSE
                     /\ Panic("Failed to spawn command")
    /\ UNCHANGED << app, raw, alt, mouse, lastOp, value, disp >>

\* FsWait that does not block (try_wait): the child is still alive after it.
FsWait_ReturnsEarly ==
    /\ pc = "fs_wait"
    /\ child = "fullscreen"
    /\ child' = child
    /\ pc' = "fs_enable_raw"
    /\ UNCHANGED << app, term, spawned, value, disp, ended >>

\* let _ = child.wait(): the child has exited, with whatever status
FsWait ==
    /\ pc = "fs_wait"
    /\ child = "fullscreen"
    /\ child' = "none"
    /\ pc' = "fs_enable_raw"
    /\ UNCHANGED << app, term, spawned, value, disp, ended >>

\* enable_raw_mode().expect("Failed to enable raw mode")
FsEnableRawMode ==
    /\ pc = "fs_enable_raw"
    /\ lastOp' = "enable_raw_mode"
    /\ \E ok \in BOOLEAN :
          IF ok THEN /\ raw' = TRUE
                     /\ cursorHidden' = cursorHidden
                     /\ pc' = "fs_enter_alt"
                     /\ UNCHANGED ended
                ELSE /\ raw' = raw
                     /\ cursorHidden' = FALSE
                     /\ Panic("Failed to enable raw mode")
    /\ UNCHANGED << app, alt, mouse, proc, disp >>

\* FsEnterAlternateScreen that returns without entering the alternate screen.
FsEnterAlternateScreen_SkipsReenter ==
    /\ pc = "fs_enter_alt"
    /\ input' = <<>>
    /\ pc' = "render"
    /\ UNCHANGED << output, cwd, term, proc, disp, ended >>

\* execute!(io::stdout(), EnterAlternateScreen).expect(..), then the return
\* to read and its input.clear()
FsEnterAlternateScreen ==
    /\ pc = "fs_enter_alt"
    /\ lastOp' = "EnterAlternateScreen"
    /\ \E ok \in BOOLEAN :
          IF ok THEN /\ alt' = TRUE
                     /\ cursorHidden' = cursorHidden
                     /\ input' = <<>>
                     /\ pc' = "render"
                     /\ UNCHANGED ended
                ELSE /\ alt' = alt
                     /\ cursorHidden' = FALSE
                     /\ input' = input
                     /\ Panic("Failed to enter alternate screen")
    /\ UNCHANGED << output, cwd, raw, mouse, proc, disp >>

(***************************************************************************)
(* main: cleanup after the loop.                                           *)
(***************************************************************************)
\* disable_raw_mode()?
MainDisableRawMode ==
    /\ pc = "cleanup_raw"
    /\ lastOp' = "disable_raw_mode"
    /\ \E ok \in BOOLEAN :
          IF ok THEN /\ raw' = FALSE
                     /\ cursorHidden' = cursorHidden
                     /\ pc' = "cleanup_alt"
                     /\ UNCHANGED ended
                ELSE /\ raw' = raw
                     /\ cursorHidden' = FALSE
                     /\ Exit(1, "Err: disable_raw_mode")
    /\ UNCHANGED << app, alt, mouse, proc, disp >>

\* execute!(terminal.backend_mut(), LeaveAlternateScreen, DisableMouseCapture)?
MainLeaveAlternateScreen ==
    /\ pc = "cleanup_alt"
    /\ lastOp' = "LeaveAlternateScreen"
    /\ \E ok \in BOOLEAN :
          IF ok THEN /\ alt' = FALSE
                     /\ mouse' = FALSE
                     /\ cursorHidden' = cursorHidden
                     /\ pc' = "cleanup_cursor"
                     /\ UNCHANGED ended
                ELSE /\ UNCHANGED << alt, mouse >>
                     /\ cursorHidden' = FALSE
                     /\ Exit(1, "Err: LeaveAlternateScreen")
    /\ UNCHANGED << app, raw, proc, disp >>

\* terminal.show_cursor()?; Ok(())
MainShowCursor ==
    /\ pc = "cleanup_cursor"
    /\ cursorHidden' = FALSE
    /\ \E ok \in BOOLEAN :
          IF ok THEN Exit(0, "") ELSE Exit(1, "Err: show_cursor")
    /\ UNCHANGED << app, raw, alt, mouse, lastOp, proc, disp >>

Next ==
    \/ MainEnableRawMode
    \/ MainEnterAlternateScreen
    \/ MainTerminalNew
    \/ render_ui
    \/ EventRead
    \/ EventReadErr
    \/ MainNotKey
    \/ MainQuit
    \/ ReadChar
    \/ ReadBackspace
    \/ ReadOtherKey
    \/ ReadEnterCd
    \/ ReadEnterClear
    \/ ReadEnterFullscreen
    \/ ReadEnterCaptured
    \/ RunCmdChildExit
    \/ RunCmdMatch
    \/ FsDisableRawMode
    \/ FsLeaveAlternateScreen
    \/ FsSpawn
    \/ FsWait
    \/ FsEnableRawMode
    \/ FsEnterAlternateScreen
    \/ MainDisableRawMode
    \/ MainLeaveAlternateScreen
    \/ MainShowCursor

Spec == Init /\ [][Next]_vars

(***************************************************************************)
(* Properties.                                                             *)
(***************************************************************************)

\* C1: render_ui is never called while TerminalMode is Interactive (or half
\* switched): whenever main is about to render, also right after a
\* fullscreen command has returned, raw mode and the alternate screen are
\* both on again, so every Normal->Interactive transition has been undone.
C1_RenderOnlyInNormalMode ==
    pc = "render" => TerminalMode = "Normal"

\* A fullscreen command has run and returned, and main is about to render.
C1_Witness ==
    /\ pc = "render"
    /\ plan.kind = "RunFullscreen"
    /\ spawned = 1
    /\ TerminalMode = "Normal"

\* C2: a child with inherited stdio is alive only in Interactive mode, while
\* main is blocked in wait (so neither rendering nor reading events); each
\* call of run_fullscreen_cmd spawns exactly one such child, after raw mode
\* is off and the alternate screen is left, and the child is gone before raw
\* mode is enabled again.
C2_SingleTerminalOwner ==
    /\ child = "fullscreen" =>
          /\ pc = "fs_wait"
          /\ TerminalMode = "Interactive"
          /\ spawned = 1
    /\ pc \in {"fs_disable_raw", "fs_leave_alt", "fs_spawn"} =>
          /\ child = "none"
          /\ spawned = 0
    /\ pc \in {"fs_enable_raw", "fs_enter_alt"} =>
          /\ child = "none"
          /\ spawned = 1
    /\ (pc = "render" /\ plan.kind = "RunFullscreen") =>
          /\ child = "none"
          /\ spawned = 1

\* The fullscreen child is running and owns the terminal.
C2_Witness ==
    /\ child = "fullscreen"
    /\ ~raw
    /\ ~alt
    /\ cmd = <<"v", "i", "m">>

\* C3: when a terminal primitive fails inside run_fullscreen_cmd, the
\* program never ends with the terminal half switched, and it ends only
\* after the inverse primitive was attempted (or with nothing switched yet,
\* the terminal still in Normal mode).
C3_InverseAttemptedOnFailure ==
    (/\ pc = "done"
     /\ plan.kind = "RunFullscreen"
     /\ failure \in { "Failed to disable raw mode", "Failed to leave alternate screen",
                      "Failed to enable raw mode", "Failed to enter alternate screen" })
    => /\ TerminalMode # "Switching"
       /\ \/ TerminalMode = "Normal"
          \/ lastOp = CASE failure = "Failed to disable raw mode" -> "enable_raw_mode"
                        [] failure = "Failed to leave alternate screen" -> "EnterAlternateScreen"
                        [] failure = "Failed to enable raw mode" -> "disable_raw_mode"
                        [] failure = "Failed to enter alternate screen" -> "LeaveAlternateScreen"

\* C4: every way main ends has released the terminal (raw mode off,
\* alternate screen left), and a failure ends with a non-zero status.
C4_EveryExitReleasesTerminal ==
    pc = "done" =>
       /\ ~raw
       /\ ~alt
       /\ (failure # "" => exitStatus # 0)

\* C5: a failure to spawn a child, of a captured or of a fullscreen command,
\* never ends the program.
C5_SpawnErrorsAbsorbed ==
    ~(pc = "done" /\ failure = "Failed to spawn command")

\* C6: Enter on an input that is empty after trimming changes nothing:
\* OutputBuffer, WorkingDirectory and TerminalMode stay and no process is
\* spawned.
C6_EmptyEnterChangesNothing ==
    [][(EnterKey /\ Trim(input) = <<>>) =>
          /\ output' = output
          /\ cwd' = cwd
          /\ raw' = raw
          /\ alt' = alt
          /\ child' = "none"]_vars

\* C7: on Enter with a line that is not empty after trimming, the branch
\* taken is the classification in the documented order: "clear" exactly,
\* then the prefix "cd " (remainder trimmed), then the whole line being a
\* member of the fullscreen set, else captured; clear empties OutputBuffer
\* and spawns nothing.
C7_BranchIsClassification ==
    [][(EnterKey /\ Trim(input) # <<>>) =>
          LET c == Trim(input)
              classified ==
                  IF c = <<"c", "l", "e", "a", "r">> THEN [kind |-> "ClearOutput", arg |-> <<>>]
                  ELSE IF Len(c) >= 3 /\ c[1] = "c" /\ c[2] = "d" /\ c[3] = " "
                       THEN [kind |-> "ChangeDirectory",
                             arg |-> Trim(SubSeq(c, 4, Len(c)))]
                  ELSE IF c \in { <<"h", "t", "o", "p">>, <<"v", "i", "m">>,
                                  <<"l", "e", "s", "s">>, <<"t", "o", "p">> }
                       THEN [kind |-> "RunFullscreen", arg |-> c]
                  ELSE [kind |-> "RunCaptured", arg |-> c]
          IN  /\ plan' = classified
              /\ cmd' = c
              /\ CASE classified.kind = "ClearOutput" ->
                         output' = <<>> /\ child' = "none" /\ pc' = "render"
                   [] classified.kind = "ChangeDirectory" ->
                         child' = "none" /\ pc' = "render"
                   [] classified.kind = "RunFullscreen" ->
                         child' = "none" /\ pc' = "fs_disable_raw"
                   [] classified.kind = "RunCaptured" ->
                         pc' \in {"cmd_wait", "cmd_match"}]_vars

\* "vim f" was entered and runs as a captured command.
C7_Witness ==
    /\ pc = "cmd_wait"
    /\ child = "captured"
    /\ cmd = <<"v", "i", "m", " ", "f">>
    /\ plan.kind = "RunCaptured"

\* C8: when a captured command is over, OutputBuffer becomes exactly the
\* decoded stdout (exit 0), the decoded stderr (any other exit) or the
\* "not found" message naming the command (no result), whatever it held
\* before; "ls" exiting 0 with stdout "a.txt\n" gives "a.txt\n".
C8_CapturedOutputOverwrites ==
    [][pc = "cmd_match" =>
          /\ output' =
                IF value.tag = "Ok"
                THEN LET bytes == IF value.code = 0 THEN value.stdout ELSE value.stderr
                     IN  [i \in 1..Len(bytes) |->
                            IF bytes[i] = "<FF>" THEN "<U+FFFD>" ELSE bytes[i]]
                ELSE <<"Error: Command '">> \o cmd \o <<"' not found">>
          /\ (cmd = <<"l", "s">> /\ value.tag = "Ok" /\ value.code = 0
                /\ value.stdout = <<"a.txt\n">>) => output' = <<"a.txt\n">>]_vars

\* "ls" has exited 0 with stdout "a.txt\n" while OutputBuffer holds another,
\* non-empty text.
C8_Witness ==
    /\ pc = "cmd_match"
    /\ cmd = <<"l", "s">>
    /\ value = OkValue(0, <<"a.txt\n">>, <<>>)
    /\ output # <<>>
    /\ output # <<"a.txt\n">>

C10_InputClearedAfterEnter ==
    (pc = "render" /\ plan # NoPlan) => input = <<>>

\* The captured command "vim f" could not be spawned, and control is back in
\* the loop.
C10_Witness ==
    /\ pc = "render"
    /\ plan.kind = "RunCaptured"
    /\ output = NotFoundMessage(<<"v", "i", "m", " ", "f">>)
    /\ input = <<>>


\* C11: a character key appends exactly its character at the end of
\* InputBuffer and Backspace removes exactly the last character (an empty
\* InputBuffer stays empty); OutputBuffer, WorkingDirectory and the terminal
\* are unchanged, no process is spawned and the loop goes on.
C11_EditKeysOnlyEditInput ==
    [][(pc = "match_event" /\ event.type = "Key" /\ ~IsQuitKey(event)
          /\ event.code \in {"Char", "Backspace"}) =>
          /\ IF event.code = "Char"
             THEN /\ Len(input') = Len(input) + 1
                  /\ input'[Len(input')] = event.ch
                  /\ SubSeq(input', 1, Len(input)) = input
             ELSE IF Len(input) = 0
                  THEN input' = <<>>
                  ELSE /\ Len(input') = Len(input) - 1
                       /\ input' \o <<input[Len(input)]>> = input
          /\ output' = output
          /\ cwd' = cwd
          /\ raw' = raw
          /\ alt' = alt
          /\ child' = "none"
          /\ value' = value
          /\ exitStatus' = -1
          /\ pc' = "render"]_vars

\* Backspace was pressed on a line of two characters or more, one is left
\* out, and OutputBuffer still holds a command's result.
C11_Witness ==
    /\ pc = "render"
    /\ event = KeyEvent("Backspace", "", "NONE")
    /\ input = <<"v", "i">>
    /\ output = <<"a.txt\n">>


\* C12: the process ends in one way only, unless a terminal primitive (raw
\* mode, alternate screen, cursor, drawing, reading an event) failed: Ctrl+C
\* was read in the loop, nothing was dispatched for it, the terminal is back
\* in its pre-launch state (raw mode off, alternate screen left, mouse
\* capture off, cursor shown) and the exit status is 0.
C12_CtrlCIsTheOnlyEnd ==
    (/\ pc = "done"
     /\ failure \notin { "Failed to enable raw mode", "Failed to disable raw mode",
                         "Failed to enter alternate screen",
                         "Failed to leave alternate screen",
                         "Err: EnterAlternateScreen", "Err: LeaveAlternateScreen",
                         "Err: disable_raw_mode", "Err: show_cursor",
                         "Err: event::read", "unwrap: Terminal::new", "unwrap: draw" })
    => /\ exitStatus = 0
       /\ failure = ""
       /\ IsQuitKey(event)
       /\ plan = NoPlan
       /\ ~raw
       /\ ~alt
       /\ ~mouse
       /\ ~cursorHidden


\* C13: while a fullscreen child runs, nothing the application enabled at
\* startup is still on: raw mode is off, the alternate screen is left and
\* mouse capture is off; when the fullscreen command has returned all three
\* are on again.
C13_ChildRunsOnPristineTerminal ==
    /\ child = "fullscreen" => (~raw /\ ~alt /\ ~mouse)
    /\ (pc = "render" /\ plan.kind = "RunFullscreen") => (raw /\ alt /\ mouse)


C15_DispatchReturnsToRender ==
    (pc = "done" /\ event.code = "Enter" /\ plan # NoPlan) =>
        failure \in { "Failed to disable raw mode", "Failed to leave alternate screen",
                      "Failed to enable raw mode", "Failed to enter alternate screen",
                      "unwrap: draw" }


\* C16: the working directory changes only in the step of an Enter dispatch
\* whose trimmed line starts with "cd " and whose target is a directory that
\* exists, and then it becomes that directory; no other step (typing, clear,
\* a captured command such as "cd", a fullscreen command, a failed cd)
\* changes it.
C16_OnlyCdChangesDirectory ==
    [][cwd' # cwd =>
          /\ pc = "match_event"
          /\ event.type = "Key"
          /\ event.code = "Enter"
          /\ Len(Trim(input)) > 3
          /\ SubSeq(Trim(input), 1, 3) = <<"c", "d", " ">>
          /\ cwd' = Resolve(cwd, Trim(SubSeq(Trim(input), 4, Len(Trim(input)))))
          /\ cwd' \in Dirs]_vars

\* "cd" alone ran as a captured command and exited 0; the application is
\* still in /t.
C16_Witness ==
    /\ pc = "render"
    /\ plan = Plan("RunCaptured", <<"c", "d">>)
    /\ output = <<"a.txt\n">>
    /\ cwd = <<"/", "t">>

\* C17: from the Enter that starts a fullscreen command to its return,
\* OutputBuffer and the working directory never change and InputBuffer is
\* kept until the return, where it is emptied with TerminalMode back to
\* Normal and no child left.
C17_FullscreenKeepsAppState ==
    [][(\/ /\ pc = "match_event"
           /\ event.type = "Key"
           /\ event.code = "Enter"
           /\ Trim(input) \in fullscreen_commands
        \/ pc \in {"fs_disable_raw", "fs_leave_alt", "fs_spawn", "fs_wait",
                   "fs_enable_raw", "fs_enter_alt"}) =>
          /\ output' = output
          /\ cwd' = cwd
          /\ IF pc' = "render"
             THEN /\ input' = <<>>
                  /\ raw'
                  /\ alt'
                  /\ child' = "none"
             ELSE input' = input]_vars

\* A fullscreen command has returned: OutputBuffer still shows the result of
\* the command before it.
C17_Witness ==
    /\ pc = "render"
    /\ plan.kind = "RunFullscreen"
    /\ output = <<"out", ReplacementChar>>
    /\ input = <<>>
    /\ cwd = <<"/", "t">>
    /\ TerminalMode = "Normal"

\* C18: an event that is not a key event, and a key whose code is not Char,
\* Backspace or Enter, change nothing: InputBuffer, OutputBuffer, the working
\* directory and the terminal stay, no process is spawned and the loop goes
\* on to its next render.
C18_OtherEventsChangeNothing ==
    [][(/\ pc = "match_event"
        /\ \/ event.type # "Key"
           \/ event.code \notin {"Char", "Backspace", "Enter"}) =>
          /\ input' = input
          /\ output' = output
          /\ cwd' = cwd
          /\ raw' = raw
          /\ alt' = alt
          /\ mouse' = mouse
          /\ child' = "none"
          /\ value' = value
          /\ exitStatus' = -1
          /\ pc' = "render"]_vars

\* A mouse event was read while InputBuffer and OutputBuffer were not empty.
C18_Witness ==
    /\ pc = "render"
    /\ event = OtherEvent("Mouse")
    /\ input = <<"l", "s">>
    /\ output = <<"a.txt\n">>

=============================================================================
